---- MODULE Spec2Model ----
(***************************************************************************)
(* Model of plgo's module writer (src/plgo/modulewriter.go): the parsing   *)
(* of a package directory into a ModuleWriter and the emission of the      *)
(* build directory (package.go, pl.go, methods.go, the SQL script, the     *)
(* control file and the Makefile).                                         *)
(*                                                                         *)
(* A text is a sequence of units.  The glue-layer template and the strings *)
(* the code searches in it are spelled character by character, so that the *)
(* byte slice plgoSource[12:] and strings.Replace act as they do in Go;    *)
(* generated fragments (one declaration, one wrapper, one SQL statement)   *)
(* are single opaque units.                                                *)
(***************************************************************************)
EXTENDS Integers, Sequences, FiniteSets, TLC

\* ------------------------------------------------------------------ bounds
\* longest declaration list of one source file
MaxDecls == 2
\* number of pipeline runs on the same input directory
MaxRuns == 2

\* ------------------------------------------------------------ text helpers
RECURSIVE Concat(_)
Concat(ts) == IF ts = <<>> THEN <<>> ELSE Head(ts) \o Concat(Tail(ts))

Range(s) == {s[i] : i \in 1..Len(s)}

\* the sequences over S without repetition, of length at most n
RECURSIVE SeqsNoRep(_, _)
SeqsNoRep(S, n) ==
  IF n = 0 THEN {<<>>}
  ELSE {<<>>} \cup UNION {{<<x>> \o t : t \in SeqsNoRep(S \ {x}, n - 1)} : x \in S}

Perms(S) == {p \in SeqsNoRep(S, Cardinality(S)) : Len(p) = Cardinality(S)}

\* strings.Index: the first position at which old occurs in s, 0 if none
Index(s, old) ==
  LET hits == {i \in 1..(Len(s) - Len(old) + 1) : SubSeq(s, i, i + Len(old) - 1) = old}
  IN IF hits = {} THEN 0 ELSE CHOOSE i \in hits : \A j \in hits : i <= j

Contains(s, old) == Index(s, old) # 0

\* strings.Replace(s, old, new, 1)
Replace1(s, old, new) ==
  LET i == Index(s, old)
  IN IF i = 0 THEN s
     ELSE SubSeq(s, 1, i - 1) \o new \o SubSeq(s, i + Len(old), Len(s))

\* s[n:] of a Go string
SliceFrom(s, n) == SubSeq(s, n + 1, Len(s))

\* --------------------------------------------------------- program strings
NoErr == ""
ErrParse == "Cannot parse package"
ErrMultiple == "More than one package"
ErrNoMain == "No package main"
ErrVisitor == "unsupported function signature"
ErrAbs == "cannot resolve absolute path"
ErrTempDir == "Cannot get tempdir"
ErrWriteTemp == "Cannot write file tempdir"
ErrFormatPkg == "Cannot format package"
ErrFormatSrc == "format.Source: syntax error"
ErrNoGoMod == "go.mod is missing. Please run go mod init"
ErrReadGoMod == "read go.mod: input/output error"
ErrParseGoMod == "go.mod: malformed"
ErrNotInGoMod == "Cannot find github.com/algonode/plgo in go.mod"
ErrReadPlgo == "Cannot read plgo package"
ErrNotInstalled == "Package github.com/algonode/plgo not installed"
ErrPgConfig == "Cannot run pg_config"
ErrCreate == "open: permission denied"
ErrWriteFile == "write: no space left on device"
PanicSlice == "panic: slice bounds out of range"

\* the errors readPlGoSource returns when no template can be located or read
TemplateMissingErrors ==
  {ErrNoGoMod, ErrReadGoMod, ErrParseGoMod, ErrNotInGoMod, ErrReadPlgo, ErrNotInstalled}

KwPackage == <<"p", "a", "c", "k", "a", "g", "e", " ">>
NL == <<"\n">>
\* "package main\n\n", the prefix writeplgo puts in front of the template
PackageMainHeader == <<"p", "a", "c", "k", "a", "g", "e", " ", "m", "a", "i", "n", "\n", "\n">>
\* "//{funcdec}"
Marker == <<"/", "/", "{", "f", "u", "n", "c", "d", "e", "c", "}">>
\* "/usr/include/postgresql/server"
IncludePlaceholder == <<"/", "u", "s", "r", "/", "i", "n", "c", "l", "u", "d", "e", "/", "p", "o", "s", "t", "g", "r", "e", "s", "q", "l", "/", "s", "e", "r", "v", "e", "r">>
\* number of leading bytes of the template that writeplgo drops
HeaderCut == 12

\* the header of methods.go, as written to the buffer and as gofmt prints it
MethodsHeader == "package main /* #include postgres.h elog.h fmgr.h */ import C"
SQLHeader(name) == <<"-- complain if script is sourced in psql\n\\echo Use CREATE EXTENSION ", name, " to load this file. \\quit\n">>

\* ------------------------------------------------------------------ inputs
FileOrder == <<"a.go", "b.go", "c_test.go">>
FileNames == Range(FileOrder)

\* the directory entry name ends in ".go" (parser.ParseDir) / in "_test.go"
HasSuffixGo(n) == n \in {"a.go", "b.go", "c_test.go"}
HasSuffixTestGo(n) == n \in {"c_test.go"}

Absent == [present |-> FALSE, parses |-> FALSE, pkg |-> "", doc |-> "", decls |-> <<>>]
Garbage == [present |-> TRUE, parses |-> FALSE, pkg |-> "", doc |-> "", decls |-> <<>>]
Parsed(p, c, ds) == [present |-> TRUE, parses |-> TRUE, pkg |-> p, doc |-> c, decls |-> ds]

DocA == "// Package a adds numbers."
NoDoc == ""

ChoicesA == {Absent} \cup
  {Parsed(p, DocA, ds) : p \in {"main", "util"}, ds \in SeqsNoRep({"Add", "main"}, MaxDecls)}
ChoicesB == {Absent, Garbage} \cup
  {Parsed(p, NoDoc, ds) : p \in {"main", "util", "other"},
                          ds \in SeqsNoRep({"Greet", "helper", "Bad"}, MaxDecls)}
ChoicesC == {Parsed("main_test", NoDoc, <<"TestAdd">>)}

DirOf(a, b, c) ==
  LET all == [n \in FileNames |-> CASE n = "a.go" -> a [] n = "b.go" -> b [] OTHER -> c]
  IN [n \in {m \in FileNames : all[m].present} |-> all[n]]

Dirs == {DirOf(a, b, c) : a \in ChoicesA, b \in ChoicesB, c \in ChoicesC}

\* the name of a top-level function is exported (starts with an upper-case letter)
IsExported(name) == name \in {"Add", "Greet", "Bad", "TestAdd"}
\* the signature of the function has a shape the code writers support
IsSupported(name) == name # "Bad"

BodyStd == NL \o <<"-", "I">> \o IncludePlaceholder \o NL \o Marker \o NL \o <<"}">>
BodyNoMarker == NL \o <<"-", "I">> \o IncludePlaceholder \o NL \o <<"}">>
BodyTwoMarkers == NL \o Marker \o NL \o Marker \o NL
Templates ==
  { KwPackage \o <<"p", "l", "g", "o">> \o BodyStd,
    KwPackage \o <<"p", "l", "g", "o">> \o BodyNoMarker,
    KwPackage \o <<"p", "l", "g", "o">> \o BodyTwoMarkers,
    KwPackage \o <<"p", "l">> \o BodyStd,
    KwPackage \o <<"p">> }

\* what pg_config --includedir-server prints
PgOutputs == {<<"/usr/include/postgresql/14/server">>, <<"C:/PROGRA~1/PostgreSQL/include/server">>}

\* ------------------------------------------------------- NewModuleWriter
\* the file filter passed to parser.ParseDir: skips _test files
filtertestfiles(n) == ~HasSuffixTestGo(n)

\* the *ast.File of a parsed source file
AstFile(f) == [Name |-> f.pkg, Doc |-> f.doc, Decls |-> f.decls]

\* parser.ParseDir: the packages of the accepted files that parse, by package
\* identifier, and the first parse error
ParseDir(d, readDirOk) ==
  LET accepted == {n \in DOMAIN d : HasSuffixGo(n) /\ filtertestfiles(n)}
      good == {n \in accepted : d[n].parses}
      names == {d[n].pkg : n \in good}
  IN IF ~readDirOk THEN [pkgs |-> [p \in {} |-> 0], err |-> ErrParse]
     ELSE [pkgs |-> [p \in names |->
                       [Name |-> p,
                        Files |-> [n \in {m \in good : d[m].pkg = p} |-> AstFile(d[n])]]],
           err |-> IF good = accepted THEN NoErr ELSE ErrParse]

\* a check that lets two packages through
TooManyPackages_m(f) == Cardinality(DOMAIN f) > 2

\* len(f) > 1
TooManyPackages(f) == Cardinality(DOMAIN f) > 1

NoPackage == [Name |-> "", Files |-> [n \in {} |-> 0]]

\* a look-up that takes whatever package the directory holds
LookupPackage_m(f, name) ==
  IF DOMAIN f # {} THEN [ok |-> TRUE, pkg |-> f[CHOOSE p \in DOMAIN f : TRUE]]
  ELSE [ok |-> FALSE, pkg |-> NoPackage]

\* packageAst, ok := f[name]
LookupPackage(f, name) ==
  IF name \in DOMAIN f THEN [ok |-> TRUE, pkg |-> f[name]]
  ELSE [ok |-> FALSE, pkg |-> NoPackage]

\* (*ast.CommentGroup).Text: the comment without its markers, newline-ended;
\* the empty string for a file without documentation
CommentText(c) == IF c = NoDoc THEN "" ELSE "Package a adds numbers.\n"

\* packageDoc += packageFile.Doc.Text() + "\n", over the files in the order
\* in which the range over the map packageAst.Files yields them
RECURSIVE PackageDoc(_, _)
PackageDoc(files, order) ==
  IF order = <<>> THEN <<>>
  ELSE <<CommentText(files[Head(order)].Doc), "\n">> \o PackageDoc(files, Tail(order))

\* FuncVisitor: one code writer per exported top-level function, in the
\* order ast.Walk visits the files of the package and, in a file, in source
\* order; err is set by a function of an unsupported shape
FuncVisitor(files, order) ==
  LET exported == Concat([i \in 1..Len(order) |->
                            SelectSeq(files[order[i]].Decls, IsExported)])
  IN [functions |-> SelectSeq(exported, IsSupported),
      err |-> IF \A i \in 1..Len(exported) : IsSupported(exported[i])
              THEN NoErr ELSE ErrVisitor]

NoWriter ==
  [valid |-> FALSE, PackageName |-> "", Doc |-> <<>>, packageAst |-> NoPackage,
   functions |-> <<>>]

\* filepath.Base(absPackagePath)
ModuleName == "demo"

\* NewModuleWriter(packagePath): docOrder and walkOrder are the orders of the
\* two iterations over the map packageAst.Files
NewModuleWriter(d, readDirOk, docOrder, walkOrder, absOk) ==
  LET parsed == ParseDir(d, readDirOk)
      found == LookupPackage(parsed.pkgs, "main")
      visited == FuncVisitor(found.pkg.Files, walkOrder)
  IN IF parsed.err # NoErr THEN [mw |-> NoWriter, err |-> ErrParse]
     ELSE IF TooManyPackages(parsed.pkgs) THEN [mw |-> NoWriter, err |-> ErrMultiple]
     ELSE IF ~found.ok THEN [mw |-> NoWriter, err |-> ErrNoMain]
     ELSE IF visited.err # NoErr THEN [mw |-> NoWriter, err |-> visited.err]
     ELSE IF ~absOk THEN [mw |-> NoWriter, err |-> ErrAbs]
     ELSE [mw |-> [valid |-> TRUE, PackageName |-> ModuleName,
                   Doc |-> PackageDoc(found.pkg.Files, docOrder),
                   packageAst |-> found.pkg, functions |-> visited.functions],
           err |-> NoErr]

\* the orders in which a range over the map of the files of package main can
\* yield them (the iteration order of a Go map is unspecified)
MapOrders(d, readDirOk) ==
  Perms(DOMAIN LookupPackage(ParseDir(d, readDirOk).pkgs, "main").pkg.Files)

\* ------------------------------------------------------------ code writers
FuncDec(f) == "extern Datum " \o f \o "(FunctionCallInfo);"
Code(f) == "//export " \o f \o " func " \o f \o "(fcinfo) Datum {...}"
SQL(name, f) == "CREATE OR REPLACE FUNCTION " \o f \o " AS '$libdir/" \o name \o "' LANGUAGE c;"

\* ---------------------------------------------------------- file system
EmptyDir == [n \in {} |-> <<>>]

Put(files, name, text) == [n \in DOMAIN files \cup {name} |-> IF n = name THEN text ELSE files[n]]

\* ioutil.WriteFile: the file is written ("ok"), cannot be opened
\* ("nocreate"), or is opened and truncated but the write fails ("short")
WriteOutcomes == {"ok", "nocreate", "short"}
WriteFile(files, name, text, w) ==
  CASE w = "ok" -> [files |-> Put(files, name, text), failed |-> FALSE]
    [] w = "nocreate" -> [files |-> files, failed |-> TRUE]
    [] OTHER -> [files |-> Put(files, name, <<>>), failed |-> TRUE]

\* ------------------------------------------------------- writeUserPackage
NotEntryPoint(name) == name # "main"

\* ast.Walk(new(Remover), pkg): the tree without the user's entry-point
\* function, rewritten in place
Remover(pkg) ==
  [pkg EXCEPT !.Files = [n \in DOMAIN @ |->
                           [@[n] EXCEPT !.Decls = SelectSeq(@, NotEntryPoint)]]]

\* a sanitizer pass that also drops the code writers of the ModuleWriter
SanitizedWriter_m(mw) == [mw EXCEPT !.packageAst = Remover(@), !.functions = <<>>]

\* the ModuleWriter after ast.Walk(new(Remover), mw.packageAst)
SanitizedWriter(mw) == [mw EXCEPT !.packageAst = Remover(@)]

\* ast.MergePackageFiles(pkg, ast.FilterFuncDuplicates): the files in sorted
\* file-name order, a function declared again replacing the earlier one
MergePackageFiles(pkg) ==
  LET order == SelectSeq(FileOrder, LAMBDA n : n \in DOMAIN pkg.Files)
      docs == SelectSeq([i \in 1..Len(order) |-> pkg.Files[order[i]].Doc],
                        LAMBDA c : c # NoDoc)
      decls == Concat([i \in 1..Len(order) |-> pkg.Files[order[i]].Decls])
      keep == {i \in 1..Len(decls) : \A j \in (i + 1)..Len(decls) : decls[j] # decls[i]}
      RECURSIVE Pick(_)
      Pick(i) == IF i > Len(decls) THEN <<>>
                 ELSE (IF i \in keep THEN <<decls[i]>> ELSE <<>>) \o Pick(i + 1)
  IN [Name |-> pkg.Name, Doc |-> docs, Decls |-> Pick(1)]

\* format.Node of a file: its documentation, package clause and declarations
PrintFile(f) ==
  f.Doc \o <<"package " \o f.Name>> \o [i \in 1..Len(f.Decls) |-> "func " \o f.Decls[i]]

writeUserPackage(mw, files, createOk, formatOk, closeOk) ==
  LET mw1 == SanitizedWriter(mw)
      text == PrintFile(MergePackageFiles(mw1.packageAst))
  IN IF ~createOk
       THEN [mw |-> mw1, files |-> files, err |-> ErrWriteTemp, wfail |-> TRUE]
     ELSE IF ~formatOk
       THEN [mw |-> mw1, files |-> Put(files, "package.go", <<>>),
             err |-> ErrFormatPkg, wfail |-> TRUE]
     ELSE IF ~closeOk
       THEN [mw |-> mw1, files |-> Put(files, "package.go", text),
             err |-> ErrWriteTemp, wfail |-> TRUE]
     ELSE [mw |-> mw1, files |-> Put(files, "package.go", text),
           err |-> NoErr, wfail |-> FALSE]

\* --------------------------------------------------------------- writeplgo
GoModStates == {"missing", "unreadable", "malformed", "norequire", "ok"}

\* versionInfo("github.com/algonode/plgo")
versionInfo(gomod) ==
  CASE gomod = "missing" -> [version |-> "", err |-> ErrNoGoMod]
    [] gomod = "unreadable" -> [version |-> "", err |-> ErrReadGoMod]
    [] gomod = "malformed" -> [version |-> "", err |-> ErrParseGoMod]
    [] gomod = "norequire" -> [version |-> "", err |-> ErrNotInGoMod]
    [] OTHER -> [version |-> "v1.0.0", err |-> NoErr]

\* what the environment answers to the look-ups of readPlGoSource: pl.go is
\* under GOPATH/src, the state of go.mod, pl.go is under GOMODCACHE, pl.go is
\* under GOPATH/pkg/mod, the file found can be read
LookupEnvs ==
  [inGoPathSrc : BOOLEAN, gomod : GoModStates, inModCache : BOOLEAN,
   inGoPathMod : BOOLEAN, readOk : BOOLEAN]

readPlGoSource(env, tmpl) ==
  LET v == versionInfo(env.gomod)
      found == env.inGoPathSrc \/ env.inModCache \/ env.inGoPathMod
  IN IF ~env.inGoPathSrc /\ v.err # NoErr THEN [src |-> <<>>, err |-> v.err]
     ELSE IF found
       THEN (IF env.readOk THEN [src |-> tmpl, err |-> NoErr]
             ELSE [src |-> <<>>, err |-> ErrReadPlgo])
     ELSE [src |-> <<>>, err |-> ErrNotInstalled]

\* getcorrectpath: short (8.3) Windows path elements are spelled out, any
\* other path is kept
getcorrectpath(out) ==
  [i \in 1..Len(out) |->
     IF out[i] = "C:/PROGRA~1/PostgreSQL/include/server"
     THEN "C:/Program Files/PostgreSQL/include/server" ELSE out[i]]

\* addOtherIncludesAndLDFLAGS: nothing to add on a host that is not mingw
addOtherIncludesAndLDFLAGS(src, include) == src

\* var funcdec string; for _, f := range mw.functions { funcdec += f.FuncDec() }
FuncDecs(functions) == [i \in 1..Len(functions) |-> FuncDec(functions[i])]

\* "package main\n\n" + plgoSource[12:]
RewritePackageClause(src) == PackageMainHeader \o SliceFrom(src, HeaderCut)

\* the text of pl.go for a template of at least 12 bytes
PlgoText(mw, src, pgOut) ==
  LET s1 == RewritePackageClause(src)
      include == getcorrectpath(pgOut)
      s2 == Replace1(s1, IncludePlaceholder, include)
      s3 == addOtherIncludesAndLDFLAGS(s2, include)
  IN Replace1(s3, Marker, FuncDecs(mw.functions))

writeplgo(mw, files, env, tmpl, pgOk, pgOut, w) ==
  LET read == readPlGoSource(env, tmpl)
      written == WriteFile(files, "pl.go", PlgoText(mw, read.src, pgOut), w)
  IN IF read.err # NoErr THEN [files |-> files, err |-> read.err, wfail |-> FALSE]
     ELSE IF Len(read.src) < HeaderCut
       THEN [files |-> files, err |-> PanicSlice, wfail |-> FALSE]
     ELSE IF ~pgOk THEN [files |-> files, err |-> ErrPgConfig, wfail |-> FALSE]
     ELSE [files |-> written.files,
           err |-> IF written.failed THEN ErrWriteTemp ELSE NoErr,
           wfail |-> written.failed]

\* ---------------------------------------------------- writeExportedMethods
\* format.Source: every unit of the buffer in gofmt's layout
Gofmt(u) == "gofmt: " \o u
FormatSource(buf) == [i \in 1..Len(buf) |-> Gofmt(buf[i])]

writeExportedMethods(mw, files, formatOk, w) ==
  LET buf == <<MethodsHeader>> \o [i \in 1..Len(mw.functions) |-> Code(mw.functions[i])]
      written == WriteFile(files, "methods.go", FormatSource(buf), w)
  IN IF ~formatOk THEN [files |-> files, err |-> ErrFormatSrc, wfail |-> FALSE]
     ELSE [files |-> written.files,
           err |-> IF written.failed THEN ErrWriteTemp ELSE NoErr,
           wfail |-> written.failed]


\* ------------------------------------------------------------- WriteModule
BuildDir == "/tmp/plgo-build"

\* an error check that lets WriteModule go on after a failed step
StepFailed_m(err) == FALSE

\* if err != nil { return "", err }
StepFailed(err) == err # NoErr

Stage(name, r) == [stage |-> name, err |-> r.err, wfail |-> r.wfail]

\* the inputs of one call of WriteModule: what buildPath, os.Create,
\* format.Node, Close, the template look-ups, pg_config, the two
\* ioutil.WriteFile and format.Source answer
GoodEnv ==
  [inGoPathSrc |-> TRUE, gomod |-> "ok", inModCache |-> FALSE, inGoPathMod |-> FALSE,
   readOk |-> TRUE]
GoodRun ==
  [buildOk |-> TRUE, createOk |-> TRUE, nodeOk |-> TRUE, closeOk |-> TRUE,
   env |-> GoodEnv, pgOk |-> TRUE, plgoWrite |-> "ok", sourceOk |-> TRUE,
   methodsWrite |-> "ok"]
\* WriteModule stops at the first failure, so the runs with one failure (and
\* any answers to the look-ups) show every outcome
ModuleRuns ==
  {GoodRun, [GoodRun EXCEPT !.buildOk = FALSE], [GoodRun EXCEPT !.createOk = FALSE],
   [GoodRun EXCEPT !.nodeOk = FALSE], [GoodRun EXCEPT !.closeOk = FALSE],
   [GoodRun EXCEPT !.pgOk = FALSE], [GoodRun EXCEPT !.sourceOk = FALSE]}
  \cup {[GoodRun EXCEPT !.env = e] : e \in LookupEnvs}
  \cup {[GoodRun EXCEPT !.plgoWrite = w] : w \in WriteOutcomes}
  \cup {[GoodRun EXCEPT !.methodsWrite = w] : w \in WriteOutcomes}

WriteModule(mw, tmpl, pgOut, in) ==
  LET r1 == writeUserPackage(mw, EmptyDir, in.createOk, in.nodeOk, in.closeOk)
      r2 == writeplgo(r1.mw, r1.files, in.env, tmpl, in.pgOk, pgOut, in.plgoWrite)
      r3 == writeExportedMethods(r1.mw, r2.files, in.sourceOk, in.methodsWrite)
      s1 == <<Stage("writeUserPackage", r1)>>
      s2 == s1 \o <<Stage("writeplgo", r2)>>
      s3 == s2 \o <<Stage("writeExportedMethods", r3)>>
  IN IF ~in.buildOk
       THEN [mw |-> mw, files |-> EmptyDir, path |-> "", err |-> ErrTempDir, stages |-> <<>>]
     ELSE IF StepFailed(r1.err)
       THEN [mw |-> r1.mw, files |-> r1.files, path |-> "", err |-> r1.err, stages |-> s1]
     ELSE IF StepFailed(r2.err)
       THEN [mw |-> r1.mw, files |-> r2.files, path |-> "", err |-> r2.err, stages |-> s2]
     ELSE IF StepFailed(r3.err)
       THEN [mw |-> r1.mw, files |-> r3.files, path |-> "", err |-> r3.err, stages |-> s3]
     ELSE [mw |-> r1.mw, files |-> r3.files, path |-> BuildDir, err |-> NoErr, stages |-> s3]

\* ---------------------------------------------------------------- WriteSQL
SQLName(mw) == mw.PackageName \o "--0.1.sql"

\* the writes of WriteSQL, in order: the header, then one statement per
\* function
SQLWrites(mw) ==
  <<SQLHeader(mw.PackageName)>> \o
  [i \in 1..Len(mw.functions) |-> <<SQL(mw.PackageName, mw.functions[i])>>]

\* failFrom: the first write that fails (none when above the number of writes)
WriteSQL(mw, files, createOk, failFrom) ==
  LET writes == SQLWrites(mw)
      done == SubSeq(writes, 1, failFrom - 1)
  IN IF ~createOk THEN [files |-> files, err |-> ErrCreate, wfail |-> TRUE]
     ELSE [files |-> Put(files, SQLName(mw), Concat(done)), err |-> NoErr,
           wfail |-> failFrom <= Len(writes)]

\* ------------------------------------------------ WriteControl, WriteMakefile
ControlName(mw) == mw.PackageName \o ".control"
ControlText(mw) ==
  <<"# ", mw.PackageName, " extension\ncomment = '", mw.PackageName,
    " extension'\ndefault_version = '0.1'\nrelocatable = true">>

WriteControl(mw, files, w) ==
  LET written == WriteFile(files, ControlName(mw), ControlText(mw), w)
  IN [files |-> written.files, err |-> IF written.failed THEN ErrWriteFile ELSE NoErr,
      wfail |-> written.failed]

MakefileText(mw) ==
  <<"EXTENSION = ", mw.PackageName, "\nDATA = ", mw.PackageName,
    "--0.1.sql  # script files to install\n# REGRESS = ", mw.PackageName,
    "_test     # our test script file (without extension)\nMODULES = ", mw.PackageName,
    "          # our c module file to build\noverride with_llvm = no\n\n# postgres build stuff\nPG_CONFIG = pg_config\nPGXS := $(shell $(PG_CONFIG) --pgxs)\ninclude $(PGXS)">>

WriteMakefile(mw, files, w) ==
  LET written == WriteFile(files, "Makefile", MakefileText(mw), w)
  IN [files |-> written.files, err |-> IF written.failed THEN ErrWriteFile ELSE NoErr,
      wfail |-> written.failed]

\* ------------------------------------------------------------------- state
VARIABLES
  dir,       \* the package directory: file name -> source file
  template,  \* the text of the glue-layer template pl.go
  pgOut,     \* the output of pg_config --includedir-server
  run,       \* the number of the pipeline run on this directory
  pc,        \* where the run is: start, constructed, built, failed, crashed
  mw,        \* the ModuleWriter
  mw0,       \* the ModuleWriter as NewModuleWriter returned it
  files,     \* the build directory: file name -> text
  path,      \* the path WriteModule returned
  emitted,   \* the artifact stages called after WriteModule
  last,      \* the last call: operation, error returned, outcome per stage
  clean,     \* no file operation has failed in this run
  prev       \* the outcome of the previous complete run

vars == <<dir, template, pgOut, run, pc, mw, mw0, files, path, emitted, last, clean, prev>>

Call(op, err, stages, readDirOk) ==
  [op |-> op, err |-> err, stages |-> stages, readDirOk |-> readDirOk]

NoRun == [done |-> FALSE, files |-> EmptyDir, Doc |-> <<>>, clean |-> FALSE]

Init ==
  /\ dir \in Dirs
  /\ template \in Templates
  /\ pgOut \in PgOutputs
  /\ run = 1
  /\ pc = "start"
  /\ mw = NoWriter
  /\ mw0 = NoWriter
  /\ files = EmptyDir
  /\ path = ""
  /\ emitted = {}
  /\ last = Call("none", NoErr, <<>>, TRUE)
  /\ clean = TRUE
  /\ prev = NoRun

\* mw, err := NewModuleWriter(packagePath)
CallNewModuleWriter ==
  /\ pc = "start"
  /\ \E readDirOk \in BOOLEAN, absOk \in BOOLEAN :
       \E docOrder \in MapOrders(dir, readDirOk), walkOrder \in MapOrders(dir, readDirOk) :
         LET r == NewModuleWriter(dir, readDirOk, docOrder, walkOrder, absOk)
         IN /\ mw' = r.mw
            /\ mw0' = r.mw
            /\ pc' = IF r.err = NoErr THEN "constructed" ELSE "failed"
            /\ last' = Call("NewModuleWriter", r.err, <<>>, readDirOk)
  /\ UNCHANGED <<dir, template, pgOut, run, files, path, emitted, clean, prev>>

\* tempPackagePath, err := mw.WriteModule()
CallWriteModule ==
  /\ pc = "constructed"
  /\ \E in \in ModuleRuns :
       LET r == WriteModule(mw, template, pgOut, in)
       IN /\ mw' = r.mw
          /\ files' = r.files
          /\ path' = r.path
          /\ pc' = IF r.err = NoErr THEN "built"
                   ELSE IF r.err = PanicSlice THEN "crashed" ELSE "failed"
          /\ last' = Call("WriteModule", r.err, r.stages, TRUE)
          /\ clean' = (clean /\ r.path # "" /\ \A i \in 1..Len(r.stages) : ~r.stages[i].wfail)
  /\ UNCHANGED <<dir, template, pgOut, run, mw0, emitted, prev>>

Emit(name, r) ==
  /\ files' = r.files
  /\ emitted' = emitted \cup {name}
  /\ pc' = IF r.err = NoErr THEN "built" ELSE "failed"
  /\ last' = Call(name, r.err, <<Stage(name, r)>>, TRUE)
  /\ clean' = (clean /\ ~r.wfail)
  /\ UNCHANGED <<dir, template, pgOut, run, mw, mw0, path, prev>>

\* err = mw.WriteSQL(tempPackagePath)
CallWriteSQL ==
  /\ pc = "built"
  /\ "WriteSQL" \notin emitted
  /\ \E createOk \in BOOLEAN, failFrom \in 1..(Len(mw.functions) + 2) :
       Emit("WriteSQL", WriteSQL(mw, files, createOk, failFrom))

\* err = mw.WriteControl(tempPackagePath)
CallWriteControl ==
  /\ pc = "built"
  /\ "WriteControl" \notin emitted
  /\ \E w \in WriteOutcomes : Emit("WriteControl", WriteControl(mw, files, w))

\* err = mw.WriteMakefile(tempPackagePath)
CallWriteMakefile ==
  /\ pc = "built"
  /\ "WriteMakefile" \notin emitted
  /\ \E w \in WriteOutcomes : Emit("WriteMakefile", WriteMakefile(mw, files, w))

ArtifactStages == {"WriteSQL", "WriteControl", "WriteMakefile"}

Completed == pc = "built" /\ emitted = ArtifactStages

\* after a run in which nothing failed, the pipeline is run again on the
\* unchanged directory, into a clean build directory
Rerun ==
  /\ Completed
  /\ clean
  /\ run < MaxRuns
  /\ prev' = [done |-> TRUE, files |-> files, Doc |-> mw.Doc, clean |-> clean]
  /\ run' = run + 1
  /\ pc' = "start"
  /\ mw' = NoWriter
  /\ mw0' = NoWriter
  /\ files' = EmptyDir
  /\ path' = ""
  /\ emitted' = {}
  /\ last' = Call("none", NoErr, <<>>, TRUE)
  /\ clean' = TRUE
  /\ UNCHANGED <<dir, template, pgOut>>

Next ==
  \/ CallNewModuleWriter
  \/ CallWriteModule
  \/ CallWriteSQL
  \/ CallWriteControl
  \/ CallWriteMakefile
  \/ Rerun

Spec == Init /\ [][Next]_vars

\* ================================================================== claims
\* the non-test source files of the directory, their package identifiers
NonTest(d) == {n \in DOMAIN d : HasSuffixGo(n) /\ ~HasSuffixTestGo(n)}
AllParse(d) == \A n \in NonTest(d) : d[n].parses
PackageIds(d) == {d[n].pkg : n \in NonTest(d)}

Constructed == last.op = "NewModuleWriter" /\ last.readDirOk
ModuleWritten == last.op = "WriteModule"
\* WriteModule got as far as writeplgo, which read the template
PlgoReached ==
  /\ ModuleWritten
  /\ Len(last.stages) >= 2
  /\ last.stages[2].err \notin TemplateMissingErrors
PlgoSucceeded == ModuleWritten /\ Len(last.stages) >= 2 /\ last.stages[2].err = NoErr

\* C1: when the template read by writeplgo does not contain the marker
\* "//{funcdec}", writeplgo and WriteModule return an error, pl.go is not
\* written, and the error is not one of the template-missing errors.
C1_MissingMarkerIsFatal ==
  (PlgoReached /\ ~Contains(template, Marker)) =>
    /\ last.stages[2].err # NoErr
    /\ last.err # NoErr
    /\ last.err \notin TemplateMissingErrors
    /\ "pl.go" \notin DOMAIN files

\* C2: no emission stage returns nil after one of its file operations failed.
C2_NoSilentWriteFailure ==
  \A i \in 1..Len(last.stages) : last.stages[i].wfail => last.stages[i].err # NoErr

StepOrder == <<"writeUserPackage", "writeplgo", "writeExportedMethods">>
StepFile == <<"package.go", "pl.go", "methods.go">>

C4_MultiplePackages ==
  (Constructed /\ AllParse(dir) /\ Cardinality(PackageIds(dir)) >= 2) =>
    /\ last.err = ErrMultiple
    /\ ~mw.valid
    /\ files = EmptyDir

C4_Witness ==
  /\ Constructed
  /\ AllParse(dir)
  /\ PackageIds(dir) = {"main", "util"}
  /\ last.err = ErrMultiple

\* C5: a directory whose non-test files all declare one package identifier
\* other than main makes NewModuleWriter fail with "No package main" and
\* return no ModuleWriter; a ModuleWriter is returned only when the single
\* package found is main.
C5_NotEntryPackage ==
  /\ (Constructed /\ AllParse(dir) /\ \E p \in PackageIds(dir) :
                                        p # "main" /\ PackageIds(dir) = {p})
       => (last.err = ErrNoMain /\ ~mw.valid)
  /\ mw.valid => (AllParse(dir) /\ PackageIds(dir) = {"main"})

C5_Witness ==
  /\ Constructed
  /\ AllParse(dir)
  /\ PackageIds(dir) = {"util"}
  /\ last.err = ErrNoMain

FunctionNames == {"Add", "Greet", "Bad", "TestAdd", "main", "helper"}
IsDeclaration(u) == \E f \in FunctionNames : u = FuncDec(f)
IsWrapper(u) == \E f \in FunctionNames : u = Gofmt(Code(f))
IsStatement(u) == \E f \in FunctionNames : u = SQL(ModuleName, f)

\* C6: a successful run emits exactly one declaration into pl.go, one
\* wrapper into methods.go and one registration statement into the SQL
\* script per function, each in the order of the functions sequence.
C6_OnePerFunction ==
  Completed =>
    /\ SelectSeq(files["pl.go"], IsDeclaration) = FuncDecs(mw.functions)
    /\ SelectSeq(files["methods.go"], IsWrapper)
         = [i \in 1..Len(mw.functions) |-> Gofmt(Code(mw.functions[i]))]
    /\ SelectSeq(files[SQLName(mw)], IsStatement)
         = [i \in 1..Len(mw.functions) |-> SQL(mw.PackageName, mw.functions[i])]

\* C7: two complete runs on the same directory, template and include path,
\* in which no file operation failed, produce the same contents for every
\* generated file.
C7_Deterministic ==
  (run > 1 /\ Completed /\ clean /\ prev.done /\ prev.clean) => files = prev.files

\* C8 (as stated): no emission operation changes the ModuleWriter, so it
\* always equals the ModuleWriter NewModuleWriter returned.
C8_ReadOnly == mw.valid => mw = mw0

\* C8 (amended): no emission operation changes PackageName, Doc or the
\* functions sequence, and the parsed package tree is changed only by a call
\* of WriteModule that ran writeUserPackage.
C8_OnlySanitizerRewritesTree ==
  [][(mw.valid /\ mw'.valid) =>
       /\ mw'.PackageName = mw.PackageName
       /\ mw'.Doc = mw.Doc
       /\ mw'.functions = mw.functions
       /\ mw'.packageAst # mw.packageAst =>
            (last'.op = "WriteModule" /\ Len(last'.stages) >= 1)]_vars

\* every emission operation has run and the tree is no longer the parsed one
C8_Witness ==
  /\ Completed
  /\ mw.packageAst # mw0.packageAst
  /\ mw.functions = mw0.functions
  /\ mw.functions # <<>>

\* the template after its package clause (the first line)
AfterPackageClause(t) ==
  LET i == Index(t, NL) IN IF i = 0 THEN <<>> ELSE SubSeq(t, i, Len(t))

\* C9: pl.go is the template with its package clause rewritten to package
\* main, the include path substituted and the first marker replaced by the
\* declarations, every other character of the template being kept.
C9_TemplatePreserved ==
  PlgoSucceeded =>
    files["pl.go"] =
      Replace1(Replace1(<<"p", "a", "c", "k", "a", "g", "e", " ", "m", "a", "i", "n", "\n", "\n">>
                          \o AfterPackageClause(template),
                        IncludePlaceholder, getcorrectpath(pgOut)),
               Marker, FuncDecs(mw.functions))

\* C10: two constructions from the same directory yield the same Doc.
C10_DocDeterministic == (run > 1 /\ mw.valid /\ prev.done) => mw.Doc = prev.Doc

====
